---- MODULE Spec2Model ----
(***************************************************************************)
(* Model of src/hyperbolic-tilings/Example_Euclidean_uniform_tilings.py:   *)
(* the class EuclideanUniformTiling (mirrors, reflections, fundamental     *)
(* faces, the breadth-first traversal of the word automaton, and the loop  *)
(* of draw that consumes it).                                              *)
(*                                                                         *)
(* Coordinates are exact.  Every number the program computes for the       *)
(* Coxeter orders 2, 3, 4, 6 lies in the field Q(sqrt 2, sqrt 3); a number *)
(* is the tuple <<a, b, c, e, d>> standing for                             *)
(*        (a + b*sqrt(2) + c*sqrt(3) + e*sqrt(6)) / d                      *)
(* with d > 0 and gcd(a, b, c, e, d) = 1, so that two numbers are equal    *)
(* exactly when their tuples are equal.                                    *)
(***************************************************************************)
EXTENDS Integers, Sequences, FiniteSets

(***************************************************************************)
(* Bounds of the model.                                                    *)
(***************************************************************************)
MaxDepth == 2

MaxDraws == 2

(***************************************************************************)
(* Exact arithmetic in Q(sqrt 2, sqrt 3): the float operations of numpy.   *)
(***************************************************************************)
AbsInt(n) == IF n < 0 THEN -n ELSE n

\* The operators below bind each operand once (as the one element of a set)
\* before using it, so that an operand is computed once however often the
\* body reads it.
RECURSIVE Gcd(_, _)
Gcd(a, b) == IF b = 0 THEN a ELSE CHOOSE g \in {Gcd(b, r) : r \in {a % b}} : TRUE

\* The tuple of (a + b*sqrt 2 + c*sqrt 3 + e*sqrt 6) / d in lowest terms, d > 0.
Norm(a0, b0, c0, e0, d0) ==
    CHOOSE t \in
        { LET s == IF d < 0 THEN -1 ELSE 1
              g == Gcd(Gcd(Gcd(Gcd(AbsInt(d), AbsInt(a)), AbsInt(b)), AbsInt(c)), AbsInt(e))
          IN  IF d = 1 \/ (g = 1 /\ s = 1)
              THEN <<a, b, c, e, d>>
              ELSE <<(s * a) \div g, (s * b) \div g, (s * c) \div g, (s * e) \div g, (s * d) \div g>> :
          a \in {a0}, b \in {b0}, c \in {c0}, e \in {e0}, d \in {d0} } : TRUE

Rat(n, d) == Norm(n, 0, 0, 0, d)

Zero == <<0, 0, 0, 0, 1>>

One == <<1, 0, 0, 0, 1>>

Neg(x) == CHOOSE t \in { <<-a[1], -a[2], -a[3], -a[4], a[5]>> : a \in {x} } : TRUE

Add(x0, y0) ==
    CHOOSE t \in
        { IF x = Zero THEN y
          ELSE IF y = Zero THEN x
          ELSE IF x[5] = y[5]
          THEN Norm(x[1] + y[1], x[2] + y[2], x[3] + y[3], x[4] + y[4], x[5])
          ELSE Norm(x[1] * y[5] + y[1] * x[5], x[2] * y[5] + y[2] * x[5],
                    x[3] * y[5] + y[3] * x[5], x[4] * y[5] + y[4] * x[5], x[5] * y[5]) :
          x \in {x0}, y \in {y0} } : TRUE

Sub(x, y) == Add(x, Neg(y))

Mul(x0, y0) ==
    CHOOSE t \in
        { IF x = Zero \/ y = Zero THEN Zero
          ELSE IF x = One THEN y
          ELSE IF y = One THEN x
          ELSE Norm(x[1] * y[1] + 2 * x[2] * y[2] + 3 * x[3] * y[3] + 6 * x[4] * y[4],
                    x[1] * y[2] + x[2] * y[1] + 3 * (x[3] * y[4] + x[4] * y[3]),
                    x[1] * y[3] + x[3] * y[1] + 2 * (x[2] * y[4] + x[4] * y[2]),
                    x[1] * y[4] + x[4] * y[1] + x[2] * y[3] + x[3] * y[2],
                    x[5] * y[5]) :
          x \in {x0}, y \in {y0} } : TRUE

\* 1 / x, by the two conjugations sqrt 2 -> -sqrt 2 and sqrt 3 -> -sqrt 3.
Inv(x) ==
    LET s  == <<x[1], -x[2], x[3], -x[4], x[5]>>
        y  == Mul(x, s)
        yc == <<y[1], 0, -y[3], 0, y[5]>>
        z  == Mul(y, yc)
    IN  Mul(Mul(s, yc), Norm(z[5], 0, 0, 0, z[1]))

Div(x, y) == Mul(x, Inv(y))

\* np.sqrt: the non-negative root.  The radicands of get_mirrors are
\* 0, 1/4, 1/2, 3/4 and 1 for the orders 2, 3, 4, 6.
Sqrt(x) ==
    CHOOSE s \in {Zero, One, Rat(1, 2), <<0, 1, 0, 0, 2>>, <<0, 0, 1, 0, 2>>} : Mul(s, s) = x

\* abs(): get_mirrors applies it to a rational radicand.
Abs(x) == IF x[1] < 0 /\ x[2] = 0 /\ x[3] = 0 /\ x[4] = 0 THEN Neg(x) ELSE x

\* -np.cos(np.pi / n) for the entries of a Coxeter matrix.
NegCosPiOver(n) ==
    CASE n = 1 -> One
      [] n = 2 -> Zero
      [] n = 3 -> Rat(-1, 2)
      [] n = 4 -> <<0, -1, 0, 0, 2>>
      [] n = 6 -> <<0, 0, -1, 0, 2>>

\* np.dot of two 3-vectors.
Dot(v, w) == Add(Add(Mul(v[1], w[1]), Mul(v[2], w[2])), Mul(v[3], w[3]))

(***************************************************************************)
(* get_mirrors: row i of the result is the normal of mirror i.             *)
(***************************************************************************)
get_mirrors(cm) ==
    LET C(i, j) == NegCosPiOver(cm[i][j])
        M10 == C(1, 0)
        M11 == Sqrt(Sub(One, Mul(M10, M10)))
        M20 == C(2, 0)
        M21 == Div(Sub(C(2, 1), Mul(M20, M10)), M11)
        M22 == Sqrt(Abs(Sub(Add(Mul(M20, M20), Mul(M21, M21)), One)))
    IN  [i \in 0..2 |->
            CASE i = 0 -> <<One, Zero, Zero>>
              [] i = 1 -> <<M10, M11, Zero>>
              [] i = 2 -> <<M20, M21, M22>>]

(***************************************************************************)
(* get_reflections: reflect(v, normal, dist), and the three operators as   *)
(* the pairs (normal, dist) the partials close over.                       *)
(***************************************************************************)
\* reflect with the factor 2 lost: the projection onto the mirror.
reflect_half(v0, normal, dist) ==
    CHOOSE t \in
        { <<Sub(v[1], Mul(k, normal[1])), Sub(v[2], Mul(k, normal[2])),
            Sub(v[3], Mul(k, normal[3]))>> :
          k \in {Add(Dot(v0, normal), dist)}, v \in {v0} } : TRUE

\* Line 66: v - 2 * (np.dot(v, normal) + dist) * normal
reflect(v0, normal, dist) ==
    CHOOSE t \in
        { <<Sub(v[1], Mul(k, normal[1])), Sub(v[2], Mul(k, normal[2])),
            Sub(v[3], Mul(k, normal[3]))>> :
          k \in {Mul(Rat(2, 1), Add(Dot(v0, normal), dist))}, v \in {v0} } : TRUE

get_reflections(ms, init_dist) ==
    [k \in 0..2 |-> [normal |-> ms[k], dist |-> init_dist[k]]]

\* self.reflections[k](p)
Apply(refl, k, p) == reflect(p, refl[k].normal, refl[k].dist)

(***************************************************************************)
(* Inputs of the constructor.  pqr and init_dist are taken from main();    *)
(* the all-zero distance vector is the mask with no active mirror.         *)
(***************************************************************************)
Tiling(p, q, r, d0, d1, d2) ==
    [pqr |-> <<p, q, r>>, init_dist |-> [k \in 0..2 |-> CASE k = 0 -> d0 [] k = 1 -> d1 [] k = 2 -> d2]]

Tilings ==
    { Tiling(3, 3, 3, One, Zero, Zero),
      Tiling(3, 3, 3, One, One, Zero),
      Tiling(2, 4, 4, Zero, One, One),
      Tiling(2, 3, 6, One, Zero, One),
      Tiling(3, 3, 3, Zero, Zero, Zero) }

\* helpers.make_symmetry_matrix: the symmetric matrix with unit diagonal.
make_symmetry_matrix(pqr) ==
    [i \in 0..2 |-> [j \in 0..2 |->
        IF i = j THEN 1
        ELSE IF {i, j} = {0, 1} THEN pqr[1]
        ELSE IF {i, j} = {0, 2} THEN pqr[2]
        ELSE pqr[3]]]

\* Active with every mirror taken as active.
Active_all(init_dist) == [k \in 0..2 |-> TRUE]

\* self.active = [bool(x) for x in init_dist]
Active(init_dist) == [k \in 0..2 |-> init_dist[k] # Zero]

\* helpers.get_init_point: the points the constructor may obtain.  A zero
\* distance puts the point on the mirror, a non-zero one off it.
get_init_point(ms, init_dist) ==
    { P \in { <<px, py, One>> : px \in {Zero}, py \in {Zero, Rat(1, 4)} } :
        \A k \in 0..2 : (reflect(P, ms[k], init_dist[k]) = P) <=> (init_dist[k] = Zero) }

(***************************************************************************)
(* The word automaton.  A state is a tuple; an automaton is its start      *)
(* state and, per state, the sequence all_transitions() yields.  traverse  *)
(* reads nothing else of self.dfa, so besides the automaton of the Coxeter *)
(* group the constructor may hold one with cycles or one with no           *)
(* transition at all.                                                      *)
(***************************************************************************)
CycleAutomaton ==
    [start |-> <<>>,
     trans |-> [s \in {<<>>, <<0>>} |->
                  IF s = <<>> THEN << <<0, <<0>>>>, <<2, <<>>>> >>
                  ELSE << <<1, <<>>>>, <<2, <<0>>>> >>]]

EmptyAutomaton ==
    [start |-> <<>>, trans |-> [s \in {<<>>} |-> <<>>]]

GenericAutomata == {CycleAutomaton, EmptyAutomaton}

\* u before w in the lexicographic order of words of one length.
RECURSIVE LexLess(_, _)
LexLess(u, w) ==
    /\ u # <<>>
    /\ \/ u[1] < w[1]
       \/ u[1] = w[1] /\ LexLess(Tail(u), Tail(w))

\* The shortlex-least words of length <= k of the group generated by the
\* reflections refl, each with the images of three reference points, which
\* determine the group element.
RECURSIVE CanonicalWords(_, _)
CanonicalWords(refl, k) ==
    IF k = 0
    THEN {[w |-> <<>>, g |-> <<<<Zero, Zero, One>>, <<One, Zero, One>>, <<Zero, One, One>>>>]}
    ELSE LET prev == CanonicalWords(refl, k - 1)
             cand == { [w |-> Append(p.w, s),
                        g |-> [n \in 1..3 |-> Apply(refl, s, p.g[n])]] :
                       p \in {q \in prev : Len(q.w) = k - 1}, s \in 0..2 }
         IN  prev \cup
             { c \in cand : /\ \A p \in prev : p.g # c.g
                            /\ \A c2 \in cand : c2.g = c.g => ~LexLess(c2.w, c.w) }

\* automata.get_automaton: the automaton of the shortlex-least words of the
\* Coxeter group of cm, unfolded to the words of length <= MaxDepth (traverse
\* reads the transitions of a state only below its depth).
get_automaton(cm) ==
    LET refl  == get_reflections(get_mirrors(cm), [k \in 0..2 |-> One])
        words == { c.w : c \in CanonicalWords(refl, MaxDepth) }
    IN  [start |-> <<>>,
         trans |-> [w \in words |->
            LET syms == { s \in 0..2 : Append(w, s) \in words }
                f[n \in 0..3] ==
                    IF n = 3 THEN <<>>
                    ELSE IF n \in syms THEN << <<n, Append(w, n)>> >> \o f[n + 1]
                    ELSE f[n + 1]
            IN  f[0]]]

all_transitions(a, state) == a.trans[state]

(***************************************************************************)
(* The state: the fields of one EuclideanUniformTiling, the frame of a     *)
(* draw call in progress, and the frame of the traverse generator that     *)
(* draw is iterating.                                                      *)
(***************************************************************************)
VARIABLES
    cox_mat,            \* self.cox_mat
    init_dist,          \* the init_dist the reflections close over
    active,             \* self.active
    dfa,                \* self.dfa
    mirrors,            \* self.mirrors
    init_v,             \* self.init_v
    reflections,        \* self.reflections
    fundamental_faces,  \* self.fundamental_faces
    pc,                 \* "idle", or "draw" while a draw call is in its loops
    outcome,            \* how the last draw call ended
    draws,              \* the draw calls made on the instance
    face_colors,        \* draw's argument: None or a list of colours
    depth,              \* draw's argument, handed to traverse
    i,                  \* draw's index into fundamental_faces
    gen,                \* the generator: "none", "start", "yielded", "done"
    queue,              \* traverse's deque
    cur,                \* the record traverse is suspended on
    yielded,            \* the records the generator has yielded so far
    enqueued            \* (state, word, steps) of every queue.append, in order

vars ==
    <<cox_mat, init_dist, active, dfa, mirrors, init_v, reflections, fundamental_faces,
      pc, outcome, draws, face_colors, depth, i, gen, queue, cur, yielded, enqueued>>

tiling == <<cox_mat, init_dist, active, dfa, mirrors, init_v, reflections>>

NoRecord == [state |-> <<>>, word |-> <<>>, steps |-> -1, shape |-> <<>>]

\* draw's argument face_colors: None, or a list of colours.
NoColors == [is_none |-> TRUE, list |-> <<>>]

\* The face_colors a caller passes: None, or draw's default list.
FaceColorChoices == {NoColors, [is_none |-> FALSE, list |-> <<4684164, 15641165, 12598340>>]}

(***************************************************************************)
(* __init__                                                                *)
(***************************************************************************)
Init ==
    \E t \in Tilings :
        LET cm == make_symmetry_matrix(t.pqr)
            ms == get_mirrors(cm)
        IN  /\ cox_mat = cm
            /\ init_dist = t.init_dist
            /\ active = Active(t.init_dist)
            /\ dfa \in {get_automaton(cm)} \cup GenericAutomata
            /\ mirrors = ms
            /\ init_v \in get_init_point(ms, t.init_dist)
            /\ reflections = get_reflections(ms, t.init_dist)
            /\ fundamental_faces = <<>>
            /\ pc = "idle"
            /\ outcome = "none"
            /\ draws = 0
            /\ face_colors = NoColors
            /\ depth = 0
            /\ i = 0
            /\ gen = "none"
            /\ queue = <<>>
            /\ cur = NoRecord
            /\ yielded = <<>>
            /\ enqueued = <<>>

(***************************************************************************)
(* get_fundamental_faces                                                   *)
(***************************************************************************)
\* Rotate with the two reflections in the other order.
Rotate_swapped(a, b, P) == Apply(reflections, a, Apply(reflections, b, P))

\* The rotation of the pair: P <- reflections[b](reflections[a](P)).
Rotate(a, b, P) == Apply(reflections, b, Apply(reflections, a, P))

\* Lines 77-81: n rounds appending P and Q.
RECURSIVE BothActiveFace(_, _, _, _, _)
BothActiveFace(a, b, P, Q, n) ==
    IF n = 0 THEN <<>>
    ELSE <<P, Q>> \o BothActiveFace(a, b, Rotate(a, b, P), Rotate(a, b, Q), n - 1)

\* Lines 84-86 and 89-91: n rounds appending P.
RECURSIVE OneActiveFace(_, _, _, _)
OneActiveFace(a, b, P, n) ==
    IF n = 0 THEN <<>>
    ELSE <<P>> \o OneActiveFace(a, b, Rotate(a, b, P), n - 1)

\* PairFaces with the order tested by >= 2 in place of > 2.
PairFaces_order2(a, b) ==
    IF active[a] /\ active[b]
    THEN << BothActiveFace(a, b, init_v, Apply(reflections, b, init_v), cox_mat[a][b]) >>
    ELSE IF active[a] /\ cox_mat[a][b] >= 2
    THEN << OneActiveFace(a, b, init_v, cox_mat[a][b]) >>
    ELSE IF active[b] /\ cox_mat[a][b] >= 2
    THEN << OneActiveFace(b, a, init_v, cox_mat[a][b]) >>
    ELSE <<>>

\* One round of the loop over the pairs: the faces it appends (none or one).
PairFaces(a, b) ==
    IF active[a] /\ active[b]
    THEN << BothActiveFace(a, b, init_v, Apply(reflections, b, init_v), cox_mat[a][b]) >>
    ELSE IF active[a] /\ cox_mat[a][b] > 2
    THEN << OneActiveFace(a, b, init_v, cox_mat[a][b]) >>
    ELSE IF active[b] /\ cox_mat[a][b] > 2
    THEN << OneActiveFace(b, a, init_v, cox_mat[a][b]) >>
    ELSE <<>>

\* combinations(range(3), 2)
Pairs == << <<0, 1>>, <<0, 2>>, <<1, 2>> >>

\* self.fundamental_faces after one call that finds it holding faces.
get_fundamental_faces(faces) ==
    faces \o PairFaces(Pairs[1][1], Pairs[1][2])
          \o PairFaces(Pairs[2][1], Pairs[2][2])
          \o PairFaces(Pairs[3][1], Pairs[3][2])

(***************************************************************************)
(* traverse                                                                *)
(***************************************************************************)
\* Line 105: the record of the seed.
SeedRecord(domain) == [state |-> dfa.start, word |-> <<>>, steps |-> 0, shape |-> domain]

\* ShouldExpand with <= in place of <.
ShouldExpand_inclusive(steps, d) == steps <= d

\* Line 111.
ShouldExpand(steps, d) == steps < d

\* Successor with the symbol put in front of the word.
Successor_prepend(rec, symbol, target) ==
    [state |-> target,
     word  |-> <<symbol>> \o rec.word,
     steps |-> rec.steps + 1,
     shape |-> [n \in 1..Len(rec.shape) |-> Apply(reflections, symbol, rec.shape[n])]]

\* Lines 113-116: the record appended for the transition (symbol, target).
Successor(rec, symbol, target) ==
    [state |-> target,
     word  |-> Append(rec.word, symbol),
     steps |-> rec.steps + 1,
     shape |-> [n \in 1..Len(rec.shape) |-> Apply(reflections, symbol, rec.shape[n])]]

\* Successors leaving the loop after the first transition.
Successors_first(rec, d) ==
    IF ShouldExpand(rec.steps, d)
    THEN LET ts == all_transitions(dfa, rec.state)
         IN  [n \in 1..(IF ts = <<>> THEN 0 ELSE 1) |-> Successor(rec, ts[n][1], ts[n][2])]
    ELSE <<>>

\* Lines 111-116: the records appended after rec was yielded.
Successors(rec, d) ==
    IF ShouldExpand(rec.steps, d)
    THEN LET ts == all_transitions(dfa, rec.state)
         IN  [n \in 1..Len(ts) |-> Successor(rec, ts[n][1], ts[n][2])]
    ELSE <<>>

\* PopLeft taking the record from the right end: queue.pop().
PopRight(q) == <<q[Len(q)], SubSeq(q, 1, Len(q) - 1)>>

\* Line 108: queue.popleft(), as <<the record, the rest of the queue>>.
PopLeft(q) == <<Head(q), Tail(q)>>

Key(rec) == <<rec.state, rec.word, rec.steps>>

Keys(recs) == [n \in 1..Len(recs) |-> Key(recs[n])]

(***************************************************************************)
(* draw                                                                    *)
(***************************************************************************)
\* The frame of a finished (or raised) draw call is gone.
Return(how) ==
    /\ pc' = "idle"
    /\ outcome' = how
    /\ face_colors' = NoColors
    /\ depth' = 0
    /\ i' = 0
    /\ gen' = "none"
    /\ queue' = <<>>
    /\ cur' = NoRecord
    /\ yielded' = <<>>
    /\ enqueued' = <<>>

\* Line 133: self.traverse(depth, face) makes a generator; nothing runs yet.
NewGenerator ==
    /\ gen' = "start"
    /\ queue' = <<>>
    /\ cur' = NoRecord
    /\ yielded' = <<>>
    /\ enqueued' = <<>>

\* Lines 121-132: a call draw(..., depth = d, face_colors = fc) up to the
\* first round of the loop over the faces.
DrawCall(d, fc) ==
    /\ pc = "idle"
    /\ draws < MaxDraws
    /\ draws' = draws + 1
    /\ fundamental_faces' = get_fundamental_faces(fundamental_faces)
    /\ IF fundamental_faces' = <<>>
       THEN Return("written")
       ELSE /\ pc' = "draw"
            /\ outcome' = "none"
            /\ face_colors' = fc
            /\ depth' = d
            /\ i' = 0
            /\ NewGenerator
    /\ UNCHANGED tiling

\* Lines 133-145: the inner for asks the generator for its next record.  The
\* generator runs from where it is suspended to its next yield (lines
\* 104-105 or 111-116, then 107-109) or to its end; the body of the loop
\* then draws the record, and face_colors[i] raises IndexError when i is
\* not an index of the list.
DrawStep ==
    /\ pc = "draw"
    /\ gen \in {"start", "yielded"}
    /\ \E added \in {IF gen = "start" THEN <<SeedRecord(fundamental_faces[i + 1])>>
                       ELSE Successors(cur, depth)} :
       \E q \in {queue \o added} :
           IF q = <<>>
           THEN /\ gen' = "done"
                /\ UNCHANGED <<pc, outcome, face_colors, depth, i, queue, cur, yielded, enqueued>>
           ELSE IF ~face_colors.is_none /\ i >= Len(face_colors.list)
           THEN Return("IndexError")
           ELSE /\ gen' = "yielded"
                /\ cur' = PopLeft(q)[1]
                /\ queue' = PopLeft(q)[2]
                /\ yielded' = Append(yielded, PopLeft(q)[1])
                /\ enqueued' = enqueued \o Keys(added)
                /\ UNCHANGED <<pc, outcome, face_colors, depth, i>>
    /\ UNCHANGED <<tiling, fundamental_faces, draws>>

\* Lines 132 and 147: the generator is exhausted; the outer for takes the
\* next face, or the image is written and draw returns.
NextFace ==
    /\ pc = "draw"
    /\ gen = "done"
    /\ IF i + 1 < Len(fundamental_faces)
       THEN /\ i' = i + 1
            /\ NewGenerator
            /\ UNCHANGED <<pc, outcome, face_colors, depth>>
       ELSE Return("written")
    /\ UNCHANGED <<tiling, fundamental_faces, draws>>

Next ==
    \/ \E d \in 0..MaxDepth, fc \in FaceColorChoices : DrawCall(d, fc)
    \/ DrawStep
    \/ NextFace

Spec == Init /\ [][Next]_vars

\* The generator is advanced for as long as draw is in its loops.
FairSpec == Spec /\ WF_vars(DrawStep) /\ WF_vars(NextFace)

(***************************************************************************)
(* Vocabulary of the properties.                                           *)
(***************************************************************************)
Order(k) == cox_mat[Pairs[k][1]][Pairs[k][2]]

BothActive(k) == active[Pairs[k][1]] /\ active[Pairs[k][2]]

OneActive(k) == active[Pairs[k][1]] # active[Pairs[k][2]]

Qualifies(k) == BothActive(k) \/ (OneActive(k) /\ Order(k) > 2)

NumQualifying == Cardinality({k \in 1..3 : Qualifies(k)})

\* The number of vertices the face of the k-th pair must have.
ExpectedSize(k) == IF BothActive(k) THEN 2 * Order(k) ELSE Order(k)

ExpectedSizes ==
    LET one(k) == IF Qualifies(k) THEN <<ExpectedSize(k)>> ELSE <<>>
    IN  one(1) \o one(2) \o one(3)

\* Where the face of the k-th pair stands in fundamental_faces after one call.
FaceIndex(k) == Cardinality({m \in 1..k : Qualifies(m)})

PointSet(shape) == {shape[n] : n \in 1..Len(shape)}

\* The seed face of the traverse in progress.
Seed == fundamental_faces[i + 1]

\* word is a path of enabled transitions from state s that ends in state e.
RECURSIVE IsPath(_, _, _)
IsPath(s, word, e) ==
    IF word = <<>> THEN s = e
    ELSE \E n \in 1..Len(all_transitions(dfa, s)) :
            /\ all_transitions(dfa, s)[n][1] = word[1]
            /\ IsPath(all_transitions(dfa, s)[n][2], Tail(word), e)

\* shape with the reflections of word applied, word[1] first.
RECURSIVE ApplyWord(_, _)
ApplyWord(word, shape) ==
    IF word = <<>> THEN shape
    ELSE ApplyWord(Tail(word),
                   [n \in 1..Len(shape) |-> Apply(reflections, word[1], shape[n])])

\* N_k: the number of paths of k enabled transitions from state s.
RECURSIVE NumPaths(_, _)
NumPaths(s, k) ==
    IF k = 0 THEN 1
    ELSE LET ts == all_transitions(dfa, s)
             sum[n \in 0..Len(ts)] == IF n = 0 THEN 0 ELSE sum[n - 1] + NumPaths(ts[n][2], k - 1)
         IN  sum[Len(ts)]

RECURSIVE SumPaths(_)
SumPaths(k) == IF k = 0 THEN 0 ELSE SumPaths(k - 1) + NumPaths(dfa.start, k)

Traversing == pc = "draw" /\ gen \in {"yielded", "done"}

\* What a record of the traverse in progress must be.
RecordOK(rec) ==
    /\ Len(rec.word) = rec.steps
    /\ rec.steps <= depth
    /\ IsPath(dfa.start, rec.word, rec.state)
    /\ Len(rec.shape) = Len(Seed)
    /\ rec.shape = ApplyWord(rec.word, Seed)

\* The tiling of the Coxeter matrix [[1,3,3],[3,1,3],[3,3,1]] with the
\* distances (1, 0, 0).
Is333_100 ==
    /\ cox_mat = [a \in 0..2 |-> [b \in 0..2 |-> IF a = b THEN 1 ELSE 3]]
    /\ init_dist = [k \in 0..2 |-> IF k = 0 THEN One ELSE Zero]

(***************************************************************************)
(* C2.  A traverse run to exhaustion has yielded 1 + N_1 + ... + N_depth   *)
(* records; with depth 0 it has yielded the seed record alone, its         *)
(* polygon the seed face.                                                  *)
(***************************************************************************)
C2_YieldCount ==
    gen = "done" =>
        /\ Len(yielded) = 1 + SumPaths(depth)
        /\ depth = 0 => yielded = <<[state |-> dfa.start, word |-> <<>>, steps |-> 0, shape |-> Seed]>>

C2_Witness ==
    /\ gen = "done"
    /\ depth = 2
    /\ Len(yielded) > 1 + Len(all_transitions(dfa, dfa.start))
    /\ Len(all_transitions(dfa, dfa.start)) = 3

(***************************************************************************)
(* C4.  The records are yielded in breadth-first, first-in first-out       *)
(* order: the first is the seed record, steps never decreases along the    *)
(* output, the output followed by the queue is the sequence of all         *)
(* appends, and two waiting records differ in steps by at most 1.          *)
(***************************************************************************)
C4_BreadthFirst ==
    Traversing =>
        /\ yielded # <<>> => yielded[1] = [state |-> dfa.start, word |-> <<>>, steps |-> 0, shape |-> Seed]
        /\ \A a, b \in 1..Len(yielded) : a < b => yielded[a].steps <= yielded[b].steps
        /\ Keys(yielded \o queue) = enqueued
        /\ \A a, b \in 1..Len(queue) : queue[a].steps - queue[b].steps \in {-1, 0, 1}

C4_Witness ==
    /\ gen = "yielded"
    /\ Len(yielded) >= 3
    /\ Len(queue) >= 2
    /\ queue[1].steps # queue[Len(queue)].steps

(***************************************************************************)
(* C10.  Every record in the queue or yielded has len(word) = steps <=     *)
(* depth, a word that is a path from the start state to its state, and as  *)
(* shape the seed face with the reflections of the word applied in word    *)
(* order, vertex by vertex.                                                *)
(***************************************************************************)
C10_Records ==
    Traversing =>
        /\ \A n \in 1..Len(queue) : RecordOK(queue[n])
        /\ \A n \in 1..Len(yielded) : RecordOK(yielded[n])

C10_Witness ==
    /\ gen = "yielded"
    /\ cur.steps = 2
    /\ cur.word[1] # cur.word[2]
    /\ PointSet(cur.shape) # PointSet(Seed)
    /\ queue # <<>>

(***************************************************************************)
(* C3.  A traverse that is advanced again and again reaches its end with   *)
(* an empty queue (draw abandons one only by raising IndexError), and a    *)
(* record with steps >= depth appends nothing to the queue.                *)
(***************************************************************************)
C3_Termination ==
    /\ (pc = "draw" /\ gen = "start") ~> ((gen = "done" /\ queue = <<>>) \/ outcome = "IndexError")
    /\ [][(gen = "yielded" /\ cur.steps >= depth) => enqueued' = enqueued]_vars

C3_Witness ==
    /\ gen = "done"
    /\ queue = <<>>
    /\ dfa = CycleAutomaton
    /\ depth = 2
    /\ Len(yielded) = 7

(***************************************************************************)
(* C5.  After one call on a fresh tiling the faces are, in the order of    *)
(* the pairs (0,1), (0,2), (1,2): one face of 2n vertices for a pair with  *)
(* both mirrors active, one of n vertices for a pair with one mirror       *)
(* active and n > 2, none otherwise; at most 3 faces, none when no pair    *)
(* qualifies.                                                              *)
(***************************************************************************)
C5_FacesOfOneCall ==
    draws = 1 =>
        /\ [n \in 1..Len(fundamental_faces) |-> Len(fundamental_faces[n])] = ExpectedSizes
        /\ Len(fundamental_faces) <= 3
        /\ NumQualifying = 0 => fundamental_faces = <<>>
        /\ \A n \in 1..Len(fundamental_faces) : fundamental_faces[n][1] = init_v

C5_Witness ==
    /\ draws = 1
    /\ pc = "draw"
    /\ ~Qualifies(1)
    /\ OneActive(2)
    /\ BothActive(3)
    /\ ExpectedSizes = <<4, 8>>

(***************************************************************************)
(* C6.  The face of a pair (a, b) of order n with both mirrors active has  *)
(* 2n vertices, and reflect_b after reflect_a takes its last vertex to its *)
(* second vertex and its last but one to its first.                        *)
(***************************************************************************)
C6_Closure ==
    draws >= 1 =>
        \A k \in 1..3 : BothActive(k) =>
            LET f == fundamental_faces[FaceIndex(k)]
                a == Pairs[k][1]
                b == Pairs[k][2]
                n == Order(k)
            IN  /\ Len(f) = 2 * n
                /\ Apply(reflections, b, Apply(reflections, a, f[2 * n])) = f[2]
                /\ Apply(reflections, b, Apply(reflections, a, f[2 * n - 1])) = f[1]

\* C6 as stated: the face has 2n vertices and reflect_b after reflect_a takes
\* its last vertex to its first.
C6_Original ==
    draws >= 1 =>
        \A k \in 1..3 : BothActive(k) =>
            LET f == fundamental_faces[FaceIndex(k)]
                a == Pairs[k][1]
                b == Pairs[k][2]
                n == Order(k)
            IN  /\ Len(f) = 2 * n
                /\ Apply(reflections, b, Apply(reflections, a, f[2 * n])) = f[1]

C6_Witness ==
    /\ draws >= 1
    /\ \E k \in 1..3 :
        /\ BothActive(k)
        /\ Order(k) >= 3
        /\ fundamental_faces[FaceIndex(k)][1] # fundamental_faces[FaceIndex(k)][2]
        /\ Cardinality(PointSet(fundamental_faces[FaceIndex(k)])) = 2 * Order(k)

(***************************************************************************)
(* C7.  For the Coxeter matrix of (3,3,3) and the distances (1,0,0) face   *)
(* construction gives two faces, of 3 vertices each.                       *)
(***************************************************************************)
C7_TwoTriangles ==
    (Is333_100 /\ draws = 1) =>
        /\ Len(fundamental_faces) = 2
        /\ Len(fundamental_faces[1]) = 3
        /\ Len(fundamental_faces[2]) = 3

\* C7 as stated: for (3,3,3) with the distances (1,0,0) there is one face, of
\* 2*3 = 6 vertices.
C7_Original ==
    (Is333_100 /\ draws = 1) =>
        /\ Len(fundamental_faces) = 1
        /\ Len(fundamental_faces[1]) = 6

C7_Witness ==
    /\ Is333_100
    /\ draws = 1
    /\ pc = "draw"
    /\ active = [k \in 0..2 |-> k = 0]
    /\ Cardinality(PointSet(fundamental_faces[1])) = 3

(***************************************************************************)
(* C8.  Each reflection operator is an involution: for a mirror with a     *)
(* unit normal, any offset and any point v, reflect(reflect(v)) = v.       *)
(***************************************************************************)
C8_Involution ==
    \A k \in 0..2 : Dot(mirrors[k], mirrors[k]) = One =>
        \A d \in {init_dist[k], Rat(6, 5), Rat(-4, 5)} :
            \A v \in PointSet(cur.shape) \cup {init_v} :
                reflect(reflect(v, mirrors[k], d), mirrors[k], d) = v

C8_Witness ==
    /\ gen = "yielded"
    /\ cur.steps = 2
    /\ mirrors[2][1] = <<0, -1, 0, 0, 2>>
    /\ Dot(mirrors[2], mirrors[2]) = One
    /\ Apply(reflections, 2, cur.shape[1]) # cur.shape[1]

(***************************************************************************)
(* C9.  Faces are built once per tiling: after any number of draw calls    *)
(* fundamental_faces holds one face per qualifying pair, at most 3, and    *)
(* draw's face index stays below the number of qualifying pairs.           *)
(***************************************************************************)
C9_BuiltOnce ==
    draws >= 1 =>
        /\ Len(fundamental_faces) = NumQualifying
        /\ Len(fundamental_faces) <= 3
        /\ pc = "draw" => i < NumQualifying

(***************************************************************************)
(* C1.  With the automaton of the Coxeter group, the polygons a traverse   *)
(* of depth 1 yields for a fundamental face are pairwise distinct as sets  *)
(* of points.                                                              *)
(***************************************************************************)
C1_DistinctPolygons ==
    (pc = "draw" /\ draws = 1 /\ depth = 1 /\ dfa \notin GenericAutomata) =>
        \A a, b \in 1..Len(yielded) :
            a < b => PointSet(yielded[a].shape) # PointSet(yielded[b].shape)
====
